---- MODULE Spec2Model ----
(***************************************************************************)
(* Model of the aggregation ("count") engine of the detection core:        *)
(*   src/src/detections/rule/count.rs  count, countup, create_count_key,   *)
(*                                     aggregation_condition_select,       *)
(*                                     select_aggcon, judge_timeframe      *)
(*   src/src/main.rs                   analysis_files, analysis_file       *)
(*                                                                         *)
(* Strings are sequences of one-character strings (<<>> is ""), so that    *)
(* the quote stripping of get_alias_value_in_record can be computed.       *)
(* Indices into time_data are 0-based as in the source; At(s, i) reads     *)
(* s[i].  Timestamps are integers (seconds).                               *)
(***************************************************************************)
EXTENDS Integers, Sequences, FiniteSets, TLC

VARIABLES
    rule,        \* the aggregating rule: aggregation condition and timeframe
    countdata,   \* rule.countdata: key -> observations in arrival order
    pc,          \* where the run is: "scan", "read", "flush", "done", "panic",
                 \* "compile", "select", "selected", "rejected"
    judged,      \* what judge_satisfy_aggcondition returned at flush
    last_call,   \* the last call of rule.select: its record and return value
    cfg,         \* stored_static: search_flag, eid_filter, target ids, time range
    input,       \* evtx_files still to read: per file, what its decoder yields
    records_per_detect,  \* the batch analysis_file is filling
    store,       \* the Alert Store: alert rows in insertion order
    output,      \* the rows emit_csv has written, in the order it wrote them
    detection,   \* a rule's detection: its condition text and its selection names
    compiled,    \* what ConditionCompiler::compile_condition returned for it
    ERROR_LOG_STACK, \* the error messages pushed for the error log
    yaml,        \* ParseYaml: files, rulecounter, rule_load_cnt, rule_status_cnt
    yaml_docs,   \* read_dir: the documents its filter has not seen yet
    exclude_ids  \* RuleExclude.no_use_rule: rule id -> tag

pipeVars == <<cfg, input, records_per_detect, store, output, ERROR_LOG_STACK>>
condVars == <<detection, compiled>>
loadVars == <<yaml, yaml_docs, exclude_ids>>

vars == <<rule, countdata, pc, judged, last_call, cfg, input, records_per_detect, store,
          output, detection, compiled, ERROR_LOG_STACK, yaml, yaml_docs, exclude_ids>>

\* ------------------------------------------------------------------ bounds
MaxObs    == 3      \* observations recorded in one slot
MaxTime   == 2      \* largest event timestamp fed to the sweep
MaxCmpNum == 3      \* largest threshold N of a rule
MaxFrame  == 1      \* largest timeframe (seconds) of a rule

\* --------------------------------------------------------------- constants
\* Utc.ymd(9999, 12, 31).and_hms(23, 59, 59), far above every event time
StopTime    == 1000000
\* Utc.ymd(1977, 1, 1).and_hms(0, 0, 0): the origin of the model's clock
DefaultTime == 0

EmptyStr  == << >>
Underbar  == << "_" >>

At(s, i) == s[i + 1]

EmptyMap == [x \in {} |-> 0]

\* ------------------------------------------------------------ select_aggcon
CmpOps == {"EQ", "GE", "GT", "LE", "LT"}

\* a faulty select_aggcon that reads >= as <=
select_aggcon_GEasLE(cnt, aggcondition) ==
    CASE aggcondition.cmp_op = "EQ" -> cnt = aggcondition.cmp_num
      [] aggcondition.cmp_op = "GE" -> cnt <= aggcondition.cmp_num
      [] aggcondition.cmp_op = "GT" -> cnt > aggcondition.cmp_num
      [] aggcondition.cmp_op = "LE" -> cnt <= aggcondition.cmp_num
      [] aggcondition.cmp_op = "LT" -> cnt < aggcondition.cmp_num
      [] OTHER -> FALSE

\* a faulty select_aggcon that reads >= as >
select_aggcon_GEasGT(cnt, aggcondition) ==
    CASE aggcondition.cmp_op = "EQ" -> cnt = aggcondition.cmp_num
      [] aggcondition.cmp_op = "GE" -> cnt > aggcondition.cmp_num
      [] aggcondition.cmp_op = "GT" -> cnt > aggcondition.cmp_num
      [] aggcondition.cmp_op = "LE" -> cnt <= aggcondition.cmp_num
      [] aggcondition.cmp_op = "LT" -> cnt < aggcondition.cmp_num
      [] OTHER -> FALSE

select_aggcon(cnt, aggcondition) ==
    CASE aggcondition.cmp_op = "EQ" -> cnt = aggcondition.cmp_num
      [] aggcondition.cmp_op = "GE" -> cnt >= aggcondition.cmp_num
      [] aggcondition.cmp_op = "GT" -> cnt > aggcondition.cmp_num
      [] aggcondition.cmp_op = "LE" -> cnt <= aggcondition.cmp_num
      [] aggcondition.cmp_op = "LT" -> cnt < aggcondition.cmp_num
      [] OTHER -> FALSE

\* -------------------------------------------------------- get_sec_timeframe
\* Option<TimeFrameInfo>: timetype is "s", "m", "h", "d" or "" and timenum is
\* the parsed number [ok |-> TRUE, n |-> Int] or a ParseIntError
NoTimeframe == [is_some |-> FALSE, timetype |-> "", timenum |-> [ok |-> FALSE, n |-> 0]]
TimeFrameInfo(timetype, n) ==
    [is_some |-> TRUE, timetype |-> timetype, timenum |-> [ok |-> TRUE, n |-> n]]
TimeFrameErr(timetype) ==
    [is_some |-> TRUE, timetype |-> timetype, timenum |-> [ok |-> FALSE, n |-> 0]]

\* the timeframe in seconds, as Option<i64>
get_sec_timeframe(timeframe) ==
    IF ~timeframe.is_some THEN [is_some |-> FALSE, sec |-> 0]
    ELSE IF timeframe.timenum.ok
      THEN [is_some |-> TRUE,
            sec |-> CASE timeframe.timetype = "d" -> timeframe.timenum.n * 86400
                      [] timeframe.timetype = "h" -> timeframe.timenum.n * 3600
                      [] timeframe.timetype = "m" -> timeframe.timenum.n * 60
                      [] OTHER -> timeframe.timenum.n]
      ELSE [is_some |-> FALSE, sec |-> 0]

\* ------------------------------------------- HashMap<String, u128> updates
\* *map.entry(k).or_insert(0) += 1
EntryInc(m, k) ==
    IF k \in DOMAIN m THEN [m EXCEPT ![k] = @ + 1] ELSE m @@ (k :> 1)

\* let c = map.entry(k).or_insert(1); *c -= 1; if *c == 0 { map.remove(k) }
EntryDec(m, k) ==
    LET c == IF k \in DOMAIN m THEN m[k] ELSE 1 IN
    IF c - 1 = 0
      THEN [x \in DOMAIN m \ {k} |-> m[x]]
      ELSE [x \in DOMAIN m \cup {k} |-> IF x = k THEN c - 1 ELSE m[x]]

SumMap(m) ==
    LET RECURSIVE Sum(_)
        Sum(D) == IF D = {} THEN 0
                  ELSE LET x == CHOOSE y \in D : TRUE IN m[x] + Sum(D \ {x})
    IN Sum(DOMAIN m)

\* ---------------------------------------------------------- judge_timeframe
\* time_data.sort_by(|a, b| a.record_time.cmp(&b.record_time)): a stable sort
RECURSIVE InsertByTime(_, _)
InsertByTime(sorted, x) ==
    IF sorted = << >> THEN << x >>
    ELSE IF Head(sorted).record_time <= x.record_time
      THEN << Head(sorted) >> \o InsertByTime(Tail(sorted), x)
      ELSE << x >> \o sorted

RECURSIVE SortByTime(_)
SortByTime(s) ==
    IF s = << >> THEN << >>
    ELSE InsertByTime(SortByTime(SubSeq(s, 1, Len(s) - 1)), s[Len(s)])

\* (1..=cmp_num).map(|_| AggRecordTimeInfo { stop_time, "" })
stop_time_datas(cmp_num) ==
    [i \in 1..cmp_num |-> [record_time |-> StopTime, field_record_value |-> EmptyStr]]

\* a faulty preparation that leaves the sentinels in front of the observations
SentinelsInFront(time_datas, cmp_num) ==
    stop_time_datas(cmp_num) \o SortByTime(time_datas)

SentinelSort(time_datas, cmp_num) ==
    SortByTime(time_datas \o stop_time_datas(cmp_num))

get_next_checkpoint(cal_point, cmp_num, len) ==
    IF cal_point + cmp_num - 1 > len - 1 THEN len - 1 ELSE cal_point + cmp_num - 1

\* loaded_field_value after the statement at lines 323-325 and 393-396
SeedLoaded(time_data, start_point) ==
    EntryInc(EmptyMap, At(time_data, 0).field_record_value)

\* a faulty restart that slides by one observation after an emission
NextStartSlidesByOne(start_point, check_point) == start_point + 1

\* the cursors after a window was emitted (lines 391-392)
NextStartAfterEmit(start_point, check_point) == check_point

\* time_data[(start_point + 1)..check_point].for_each(entry += 1)
RECURSIVE LoadRange(_, _, _, _)
LoadRange(m, time_data, i, j) ==
    IF i >= j THEN m
    ELSE LoadRange(EntryInc(m, At(time_data, i).field_record_value), time_data, i + 1, j)

\* AggResult::new(data, key, field_values, start_timedate, condition_op_num);
\* condition_op_num is the rule's own text and is left out
AggResult(data, key, field_values, start_timedate, L, R, loaded) ==
    [data |-> data, key |-> key, field_values |-> field_values,
     start_timedate |-> start_timedate,
     \* auxiliary: the window [L, R) of time_data the result was emitted for
     \* and the keys of loaded_field_value at that moment
     L |-> L, R |-> R, loaded_keys |-> DOMAIN loaded]

InBounds(time_data, i) == 0 <= i /\ i < Len(time_data)

\* One evaluation of the while condition and, if it holds, of the loop body
\* (lines 327-412).  st.running = FALSE once the loop has been left.
SweepStep(r, key, time_data, st) ==
    LET len  == Len(time_data)
        agg  == r.aggcondition
        tf   == get_sec_timeframe(r.timeframe)
        sp   == st.start_point
        cp   == st.check_point
    IN
    IF ~InBounds(time_data, sp) THEN [st EXCEPT !.panic = TRUE, !.running = FALSE]
    ELSE IF ~(At(time_data, sp).record_time # StopTime /\ cp < len)
      THEN [st EXCEPT !.running = FALSE]
    ELSE IF ~InBounds(time_data, cp) THEN [st EXCEPT !.panic = TRUE, !.running = FALSE]
    ELSE
    LET check_point_date == At(time_data, cp)
        diff == check_point_date.record_time - At(time_data, sp).record_time
        st1  == [st EXCEPT !.steps = @ + 1]
    IN
    IF tf.is_some /\ diff > tf.sec THEN
        IF agg.exist_field /\ (sp + 1 > cp \/ cp > len)
          THEN [st1 EXCEPT !.panic = TRUE, !.running = FALSE]
        ELSE
        LET count_set_cnt == cp - sp
            loaded1 == IF agg.exist_field
                         THEN LoadRange(st.loaded, time_data, sp + 1, cp)
                         ELSE st.loaded
            result_set_cnt == IF agg.exist_field
                                THEN Cardinality(DOMAIN loaded1) ELSE count_set_cnt
            cmp == [L |-> sp, R |-> cp, cnt |-> result_set_cnt]
        IN
        IF ~select_aggcon(result_set_cnt, agg) THEN
            LET v == At(time_data, sp).field_record_value
                loaded2 == IF agg.exist_field THEN EntryDec(loaded1, v) ELSE loaded1
            IN [st1 EXCEPT !.loaded = loaded2,
                           !.cmps = Append(@, cmp),
                           !.start_point = sp + 1,
                           !.check_point = get_next_checkpoint(sp + 1, agg.cmp_num, len)]
        ELSE
            LET sp2 == NextStartAfterEmit(sp, cp) IN
            [st1 EXCEPT !.ret = Append(@, AggResult(result_set_cnt, key,
                                   DOMAIN loaded1 \ {EmptyStr},
                                   At(time_data, sp).record_time, sp, cp, loaded1)),
                        !.cmps = Append(@, cmp),
                        !.start_point = sp2,
                        !.check_point = get_next_checkpoint(sp2, agg.cmp_num, len),
                        !.loaded = SeedLoaded(time_data, sp2)]
    ELSE
        LET add == check_point_date.record_time # StopTime /\ cp # 0 IN
        [st1 EXCEPT !.loaded = IF add
                                 THEN EntryInc(@, check_point_date.field_record_value)
                                 ELSE @,
                    !.check_point = cp + 1]

RECURSIVE SweepLoop(_, _, _, _)
SweepLoop(r, key, time_data, st) ==
    IF ~st.running THEN st ELSE SweepLoop(r, key, time_data, SweepStep(r, key, time_data, st))

\* the comparisons made after the loop when the rule has no timeframe
\* (lines 416-446): the distinct count if a field is given and, when that one
\* is not made or fails, the number of empty field values
NoTimeframeJudge(r, key, time_data, n_obs, st) ==
    LET agg == r.aggcondition
        sp  == st.start_point
        len_keys == Cardinality(DOMAIN st.loaded)
        empties  == IF EmptyStr \in DOMAIN st.loaded THEN st.loaded[EmptyStr] ELSE 0
        cmp1 == [L |-> sp, R |-> n_obs, cnt |-> len_keys]
        cmp2 == [L |-> sp, R |-> n_obs, cnt |-> empties]
    IN
    IF st.panic \/ get_sec_timeframe(r.timeframe).is_some THEN st
    ELSE IF agg.exist_field /\ select_aggcon(len_keys, agg) THEN
        [st EXCEPT
           !.cmps = Append(@, cmp1),
           !.ret = Append(@, AggResult(SumMap(st.loaded), key,
                               DOMAIN st.loaded \ {EmptyStr},
                               At(time_data, sp).record_time, sp, n_obs,
                               st.loaded))]
    ELSE
        LET cmps1 == IF agg.exist_field THEN Append(st.cmps, cmp1) ELSE st.cmps IN
        IF select_aggcon(empties, agg) THEN
            [st EXCEPT
               !.cmps = Append(cmps1, cmp2),
               !.ret = Append(@, AggResult(empties, key, {},
                                   At(time_data, sp).record_time, sp, n_obs,
                                   st.loaded))]
        ELSE [st EXCEPT !.cmps = Append(cmps1, cmp2)]

\* judge_timeframe(rule, time_datas, key): ret plus the auxiliary record of
\* the run (comparisons made, loop iterations, panic)
judge_timeframe(r, time_datas, key) ==
    LET agg == r.aggcondition
        time_data == SentinelSort(time_datas, agg.cmp_num)
        len == Len(time_data)
        st0 == [start_point |-> 0,
                check_point |-> get_next_checkpoint(0, agg.cmp_num, len),
                loaded |-> SeedLoaded(time_data, 0),
                ret |-> << >>, cmps |-> << >>, steps |-> 0,
                panic |-> FALSE, running |-> TRUE]
        st1 == SweepLoop(r, key, time_data, st0)
        st2 == NoTimeframeJudge(r, key, time_data, Len(time_datas), st1)
    IN [key |-> key, ret |-> IF st2.panic THEN << >> ELSE st2.ret,
        cmps |-> st2.cmps, steps |-> st2.steps, panic |-> st2.panic,
        time_data |-> time_data]

\* ------------------------------------------------ values of a JSON record
\* serde_json::Value of a record attribute, None when the record lacks it
NoValue    == [kind |-> "None"]
JString(c) == [kind |-> "String", chars |-> c]
JNumber(n) == [kind |-> "Number", n |-> n]

\* Option<T>; Panicked stands for a call that panicked instead of returning
Some(x)  == [is_some |-> TRUE, v |-> x, panic |-> FALSE]
None     == [is_some |-> FALSE, panic |-> FALSE]
Panicked == [is_some |-> FALSE, panic |-> TRUE]
UnwrapOr(o, d) == IF o.is_some THEN o.v ELSE d

Quote     == "\""
Backslash == "\\"

RECURSIVE Digits(_)
Digits(n) ==
    LET d == << "0", "1", "2", "3", "4", "5", "6", "7", "8", "9" >> IN
    IF n < 10 THEN << d[n + 1] >> ELSE Digits(n \div 10) \o << d[(n % 10) + 1] >>

\* the JSON text of a string: quoted, with '"' and '\' escaped
RECURSIVE Escape(_)
Escape(c) ==
    IF c = << >> THEN << >>
    ELSE (IF Head(c) \in {Quote, Backslash} THEN << Backslash, Head(c) >>
                                            ELSE << Head(c) >>) \o Escape(Tail(c))

\* Value::to_string()
ValueToString(v) ==
    IF v.kind = "Number" THEN Digits(v.n)
    ELSE << Quote >> \o Escape(v.chars) \o << Quote >>

\* .replace("\"", "")
RemoveQuotes(str) == SelectSeq(str, LAMBDA c : c # Quote)

\* what becomes of a value found for an alias (line 66)
StripValue(value) == RemoveQuotes(ValueToString(value))

\* get_alias_value_in_record(rule, alias, record, _): alias_given is
\* alias != "", value is what utils::get_event_value finds for the alias.
\* The warning for a missing value unwraps the record's EventID.
get_alias_value_in_record(alias_given, value, record) ==
    IF ~alias_given THEN None
    ELSE IF value.kind = "None"
      THEN (IF record.eid # "none" THEN None ELSE Panicked)
    ELSE Some(StripValue(value))

\* create_count_key(rule, record), as an Option: None stands for "_"
ByValue(r, record) ==
    IF r.aggcondition.by_field
      THEN get_alias_value_in_record(TRUE, record.by, record)
      ELSE None

create_count_key(r, record) == UnwrapOr(ByValue(r, record), Underbar)

\* ------------------------------------------------------------------ countup
\* rule.countdata.entry(key).or_insert(Vec::new()).push(AggRecordTimeInfo{..})
countup(cd, key, field_value, record_time_value) ==
    LET info == [field_record_value |-> field_value, record_time |-> record_time_value]
    IN IF key \in DOMAIN cd THEN [cd EXCEPT ![key] = Append(@, info)]
       ELSE cd @@ (key :> << info >>)

\* -------------------------------------------------------------------- count
\* a faulty default that files a record without a time at the sentinel time
EventTimeOrStop(record, default_time) == UnwrapOr(record.time, StopTime)

\* Message::get_event_time(record).unwrap_or(default_time)
EventTimeOr(record, default_time) == UnwrapOr(record.time, default_time)

\* count(rule, record): the new value of rule.countdata, or a panic
count(r, cd, record) ==
    LET by    == ByValue(r, record)
        field == get_alias_value_in_record(r.aggcondition.exist_field, record.field,
                                           record)
    IN IF by.panic \/ field.panic THEN [panic |-> TRUE, countdata |-> cd]
       ELSE [panic |-> FALSE,
             countdata |-> countup(cd, create_count_key(r, record),
                                   UnwrapOr(field, EmptyStr),
                                   EventTimeOr(record, DefaultTime))]

\* RuleNode::select(record) of an aggregating rule: record.hit says whether
\* the record satisfies the condition before the pipe
select(r, cd, record) ==
    IF record.hit
      THEN LET c == count(r, cd, record)
           IN [ret |-> ~c.panic, panic |-> c.panic, countdata |-> c.countdata]
      ELSE [ret |-> FALSE, panic |-> FALSE, countdata |-> cd]

\* --------------------------------------------- aggregation_condition_select
\* for (key, value) in &rule.countdata { ret.append(judge_timeframe(..)) }
\* order is the sequence in which the map iterator yields the keys
RECURSIVE VisitSlots(_, _, _)
VisitSlots(r, cd, order) ==
    IF order = << >> THEN [ret |-> << >>, runs |-> << >>, panic |-> FALSE]
    ELSE LET j    == judge_timeframe(r, cd[Head(order)], Head(order))
             rest == VisitSlots(r, cd, Tail(order))
         IN IF j.panic THEN [ret |-> << >>, runs |-> << j >>, panic |-> TRUE]
            ELSE [ret |-> j.ret \o rest.ret, runs |-> << j >> \o rest.runs,
                  panic |-> rest.panic]

Perms(S) ==
    {f \in [1..Cardinality(S) -> S] : \A i, j \in 1..Cardinality(S) : f[i] = f[j] => i = j}

\* the orders in which iterating rule.countdata can yield its keys
IterOrders(cd) == Perms(DOMAIN cd)

aggregation_condition_select(r, cd, order) == VisitSlots(r, cd, order)

NotJudged == [ret |-> << >>, runs |-> << >>, panic |-> FALSE]

\* ===================================================== the sweep on one slot
Timeframes == {NoTimeframe, TimeFrameErr("s"), TimeFrameInfo("h", 0)}
                 \cup {TimeFrameInfo("s", n) : n \in 0..MaxFrame}

AggConditions(fields, bys) ==
    [cmp_op : CmpOps, cmp_num : 0..MaxCmpNum, exist_field : fields, by_field : bys]

SweepRules == [aggcondition : AggConditions(BOOLEAN, {FALSE}), timeframe : Timeframes]

SweepValues(r) ==
    IF r.aggcondition.exist_field THEN {EmptyStr, << "a" >>, << "b" >>} ELSE {EmptyStr}

SlotLen(cd, key) == IF key \in DOMAIN cd THEN Len(cd[key]) ELSE 0

LastTime(cd, key) ==
    IF key \in DOMAIN cd THEN cd[key][Len(cd[key])].record_time ELSE 0

NoCall == [made |-> FALSE]

\* the values of the variables of the condition compiler for the
\* specifications that compile no condition
NoCond ==
    /\ detection = [has_condition |-> FALSE, condition |-> << >>, name_2_node |-> {}]
    /\ compiled = [called |-> FALSE]

\* ParseYaml::new
ParseYaml_new ==
    [files |-> << >>,
     rulecounter |-> EmptyMap,
     rule_load_cnt |-> [k \in {"excluded", "noisy"} |-> 0],
     rule_status_cnt |-> [k \in {"deprecated"} |-> 0]]

\* the values of the variables of the rule loader for the specifications
\* that load no rule
NoLoad ==
    /\ yaml = ParseYaml_new
    /\ yaml_docs = << >>
    /\ exclude_ids = EmptyMap

\* the values of the variables of the scan for the specifications without one
NoPipe ==
    /\ cfg = [search_flag |-> FALSE]
    /\ input = << >>
    /\ records_per_detect = << >>
    /\ store = << >>
    /\ output = << >>
    /\ ERROR_LOG_STACK = << >>

SweepInit ==
    /\ rule \in SweepRules
    /\ countdata = EmptyMap
    /\ pc = "scan"
    /\ judged = NotJudged
    /\ last_call = NoCall
    /\ NoPipe
    /\ NoCond
    /\ NoLoad

\* count(): one matching record is recorded in the slot "_"; the records of
\* this specification arrive in time order
SweepCount ==
    /\ pc = "scan"
    /\ SlotLen(countdata, Underbar) < MaxObs
    /\ \E t \in 0..MaxTime, v \in SweepValues(rule) :
          /\ t >= LastTime(countdata, Underbar)
          /\ countdata' = countup(countdata, Underbar, v, t)
    /\ UNCHANGED <<loadVars, rule, pc, judged, last_call, pipeVars, condVars>>

\* judge_satisfy_aggcondition at the end of the scan
SweepFlush ==
    /\ pc = "scan"
    /\ countdata # EmptyMap
    /\ \E order \in IterOrders(countdata) :
          judged' = aggregation_condition_select(rule, countdata, order)
    /\ pc' = IF judged'.panic THEN "panic" ELSE "done"
    /\ UNCHANGED <<loadVars, rule, countdata, last_call, pipeVars, condVars>>

SweepNext == SweepCount \/ SweepFlush

SpecSweep == SweepInit /\ [][SweepNext]_vars

\* ============================================ records selected by one rule
MaxCountRecs == 2     \* records handed to rule.select
MaxEventTime == 2     \* largest event time of such a record

CountRules ==
    [aggcondition : [cmp_op : {"GE"}, cmp_num : {1},
                     exist_field : BOOLEAN, by_field : BOOLEAN],
     timeframe : {NoTimeframe}]

ByValues    == {NoValue, JString(<< "S" >>), JString(<< "a", Quote, "b" >>), JNumber(7)}
FieldValues == {NoValue, JNumber(7)}
EventTimes  == {None} \cup {Some(t) : t \in 1..MaxEventTime}

CountRecords ==
    [hit : BOOLEAN, time : EventTimes, by : ByValues, field : FieldValues,
     eid : {"none", "listed"}]

Calls == IF last_call.made THEN last_call.n ELSE 0

CountInit ==
    /\ rule \in CountRules
    /\ countdata = EmptyMap
    /\ pc = "scan"
    /\ judged = NotJudged
    /\ last_call = NoCall
    /\ NoPipe
    /\ NoCond
    /\ NoLoad

\* detection hands one record to rule.select
CountSelect ==
    /\ pc = "scan"
    /\ Calls < MaxCountRecs
    /\ \E record \in CountRecords :
          LET s == select(rule, countdata, record) IN
          /\ countdata' = s.countdata
          /\ last_call' = [made |-> TRUE, n |-> Calls + 1, record |-> record,
                           ret |-> s.ret]
          /\ pc' = IF s.panic THEN "panic" ELSE "scan"
    /\ UNCHANGED <<loadVars, rule, judged, pipeVars, condVars>>

\* judge_satisfy_aggcondition once the scan is over
CountFlush ==
    /\ pc = "scan"
    /\ \E order \in IterOrders(countdata) :
          judged' = aggregation_condition_select(rule, countdata, order)
    /\ pc' = IF judged'.panic THEN "panic" ELSE "done"
    /\ UNCHANGED <<loadVars, rule, countdata, last_call, pipeVars, condVars>>

CountNext == CountSelect \/ CountFlush

SpecCount == CountInit /\ [][CountNext]_vars

\* ====================================================== the scan of main.rs
MAX_DETECT_RECORDS == 2   \* records of one batch (5000 in the source)
MaxItems == 3             \* items yielded by the decoders of all the files
MaxFiles == 2             \* evtx files of a scan

\* TargetEventIds::is_target: the record's id is "listed" or "unlisted"
TargetEventIds_is_target(c, id) ==
    IF c.ids_empty THEN TRUE ELSE id = "listed"

\* get_time of TargetEventTime::new on an option that parses (exec returns
\* before the scan when one does not)
get_time(input_time) == IF input_time.is_some THEN Some(input_time.v) ELSE None

\* TargetEventTime::new: the time filter of the action of the command line
TargetEventTime_new(c) ==
    IF c.action = "CsvTimeline"
    THEN [start_time |-> get_time(c.start_timeline), end_time |-> get_time(c.end_timeline)]
    ELSE IF c.action = "JsonTimeline"
    THEN [start_time |-> get_time(c.start_timeline), end_time |-> get_time(c.start_timeline)]
    ELSE [start_time |-> None, end_time |-> None]

\* TargetEventTime::is_target
TargetEventTime_is_target(c, eventtime) ==
    IF ~eventtime.is_some THEN TRUE
    ELSE IF c.start_time.is_some /\ eventtime.v < c.start_time.v THEN FALSE
    ELSE IF c.end_time.is_some /\ eventtime.v > c.end_time.v THEN FALSE
    ELSE TRUE

\* Event.System.Channel is a string that is not "null"
_is_valid_channel(data) == data.channel = "ok"

_is_target_event_id(c, data) ==
    IF data.eid = "none" THEN TRUE ELSE TargetEventIds_is_target(c, data.eid)

\* a loop that pushes whatever the decoder yields
PushedWhateverYielded(c, item) == TRUE

\* the filters between the decoder and the batch: TRUE when the record is pushed
Pushed(c, item) ==
    IF item.kind = "err" THEN FALSE
    ELSE IF ~c.search_flag
              /\ (~_is_valid_channel(item)
                    \/ (c.eid_filter /\ ~_is_target_event_id(c, item)))
      THEN FALSE
    ELSE IF ~c.search_flag
              /\ ~TargetEventTime_is_target(TargetEventTime_new(c), Some(item.timestamp))
      THEN FALSE
    ELSE TRUE

\* an alert row of the Alert Store
AlertRow(timestamp, is_aggregate, data, key) ==
    [timestamp |-> timestamp, is_aggregate |-> is_aggregate, data |-> data, key |-> key]

\* Detection::start on one batch: the rule without an aggregation condition
\* inserts a row per matching record, the aggregating rule only counts
RECURSIVE DetectionStart(_, _, _, _)
DetectionStart(r, cd, st, records) ==
    IF records = << >> THEN [countdata |-> cd, store |-> st, panic |-> FALSE]
    ELSE LET record == Head(records)
             s      == select(r, cd, record)
             st2    == IF record.hit_plain
                         THEN Append(st, AlertRow(EventTimeOr(record, DefaultTime),
                                                  FALSE, 1, EmptyStr))
                         ELSE st
         IN IF s.panic THEN [countdata |-> cd, store |-> st2, panic |-> TRUE]
            ELSE DetectionStart(r, s.countdata, st2, Tail(records))

\* Detection::add_aggcondition_msges: a row per result of the aggregating rule
RECURSIVE AggRows(_)
AggRows(ret) ==
    IF ret = << >> THEN << >>
    ELSE << AlertRow(Head(ret).start_timedate, TRUE, Head(ret).data, Head(ret).key) >>
            \o AggRows(Tail(ret))

add_aggcondition_msges(st, j) == st \o AggRows(j.ret)

\* ----------------------------------------------------------------- emit_csv
\* MESSAGEKEYS: the timestamps under which the Alert Store holds rows
MessageKeys(st) == {st[i].timestamp : i \in 1..Len(st)}

\* a faulty order of the keys: latest first
RECURSIVE sorted_descending(_)
sorted_descending(S) ==
    IF S = {} THEN << >>
    ELSE LET hi == CHOOSE x \in S : \A y \in S : y <= x
         IN << hi >> \o sorted_descending(S \ {hi})

\* MESSAGEKEYS.lock().unwrap().iter().sorted_unstable()
RECURSIVE sorted_unstable(_)
sorted_unstable(S) ==
    IF S = {} THEN << >>
    ELSE LET lo == CHOOSE x \in S : \A y \in S : x <= y
         IN << lo >> \o sorted_unstable(S \ {lo})

\* MESSAGES.get(time): the rows of one timestamp, in the order of insertion
MessagesGet(st, time) == SelectSeq(st, LAMBDA row : row.timestamp = time)

RECURSIVE WriteRows(_, _)
WriteRows(st, times) ==
    IF times = << >> THEN << >>
    ELSE MessagesGet(st, Head(times)) \o WriteRows(st, Tail(times))

\* for time in sorted keys { for detect_info in MESSAGES.get(time) { write } }
emit_csv(st) == WriteRows(st, sorted_unstable(MessageKeys(st)))

\* ---------------------------------------------------------------- the inputs
PipeRules ==
    [aggcondition : [cmp_op : {"GE"}, cmp_num : {1},
                     exist_field : {FALSE}, by_field : BOOLEAN],
     timeframe : {NoTimeframe}]

\* a search with every option set, and timelines with and without the
\* event id filter, from a start or up to an end
PipeConfigs ==
    [search_flag : {TRUE}, eid_filter : {TRUE}, ids_empty : {FALSE},
     quiet_errors_flag : {FALSE},
     action : {"Search"}, start_timeline : {Some(1)}, end_timeline : {None}]
      \cup [search_flag : {FALSE}, eid_filter : {TRUE}, ids_empty : {FALSE},
            quiet_errors_flag : {FALSE},
            action : {"CsvTimeline"}, start_timeline : {Some(1)}, end_timeline : {None}]
      \cup [search_flag : {FALSE}, eid_filter : {FALSE}, ids_empty : {FALSE},
            quiet_errors_flag : BOOLEAN,
            action : {"CsvTimeline"}, start_timeline : {Some(1)}, end_timeline : {None}]
      \cup [search_flag : {FALSE}, eid_filter : {FALSE}, ids_empty : {FALSE},
            quiet_errors_flag : {FALSE},
            action : {"CsvTimeline", "JsonTimeline"},
            start_timeline : {None}, end_timeline : {Some(1)}]

Base ==
    [kind |-> "rec", channel |-> "ok", eid |-> "listed", timestamp |-> 1,
     hit |-> TRUE, hit_plain |-> FALSE, time |-> Some(1), by |-> NoValue,
     field |-> NoValue]

PipeItems ==
    { Base,
      [Base EXCEPT !.timestamp = 2, !.time = Some(2), !.hit_plain = TRUE],
      [Base EXCEPT !.by = JString(<< "S" >>)],
      [Base EXCEPT !.kind = "err"],
      [Base EXCEPT !.channel = "null"],
      [Base EXCEPT !.eid = "unlisted"],
      [Base EXCEPT !.timestamp = 0, !.time = Some(0)] }

SeqsUpTo(S, n) == UNION {[1..k -> S] : k \in 0..n}

\* the items of flat that at[i] puts into file f, in their order
FileOf(flat, at, f) ==
    LET idx == SelectSeq([i \in 1..Len(flat) |-> i], LAMBDA i : at[i] = f)
    IN [j \in 1..Len(idx) |-> flat[idx[j]]]

\* the ways to put the items of flat into n files, file after file
Cuts(flat, n) ==
    {at \in [1..Len(flat) -> 1..n] : \A i \in 1..(Len(flat) - 1) : at[i] <= at[i + 1]}

Init ==
    /\ rule \in PipeRules
    /\ cfg \in PipeConfigs
    /\ \E n \in 0..MaxFiles, flat \in SeqsUpTo(PipeItems, MaxItems) :
          \E at \in Cuts(flat, n) : input = [f \in 1..n |-> FileOf(flat, at, f)]
    /\ records_per_detect = << >>
    /\ store = << >>
    /\ output = << >>
    /\ ERROR_LOG_STACK = << >>
    /\ countdata = EmptyMap
    /\ pc = "read"
    /\ judged = NotJudged
    /\ last_call = NoCall
    /\ NoCond
    /\ NoLoad

\* one iteration of the while loop of analysis_file: records.next() is Some
ReadRecord ==
    /\ pc = "read"
    /\ input # << >>
    /\ Head(input) # << >>
    /\ Len(records_per_detect) < MAX_DETECT_RECORDS
    /\ LET item == Head(Head(input)) IN
       records_per_detect' = IF Pushed(cfg, item) THEN Append(records_per_detect, item)
                             ELSE records_per_detect
    /\ ERROR_LOG_STACK' = IF Head(Head(input)).kind = "err" /\ ~cfg.quiet_errors_flag
                          THEN Append(ERROR_LOG_STACK, "[ERROR] Failed to parse event file.")
                          ELSE ERROR_LOG_STACK
    /\ input' = << Tail(Head(input)) >> \o Tail(input)
    /\ UNCHANGED <<loadVars, condVars, rule, countdata, pc, judged, last_call, cfg, store, output>>

\* utils::create_rec_info: the record with what the rules need next to it
create_rec_info(rec, path) ==
    [f \in DOMAIN rec \cup {"evtx_filepath"} |->
        IF f = "evtx_filepath" THEN path ELSE rec[f]]

\* the tasks create_rec_infos spawns, one per record; finished is the order
\* in which they complete, and each leaves its output with its JoinHandle
Spawned(records, path, finished) ==
    [k \in 1..Len(records) |->
        [handle |-> finished[k], output |-> create_rec_info(records[finished[k]], path)]]

\* an await that takes the outputs as the tasks complete
AwaitAsCompleted(done) == [k \in 1..Len(done) |-> done[k].output]

\* an await that leaves the loop before the last task is joined
AwaitAllButLast(done) ==
    [i \in 1..(Len(done) - 1) |->
        done[CHOOSE k \in 1..Len(done) : done[k].handle = i].output]

\* for thread in threads.into_iter() { ret.push(thread.await.unwrap()) }
AwaitEach(done) ==
    [i \in 1..Len(done) |-> done[CHOOSE k \in 1..Len(done) : done[k].handle = i].output]

create_rec_infos(records, path, finished) == AwaitEach(Spawned(records, path, finished))

\* the while loop ended with a batch: create_rec_infos, then detection.start
\* unless the command is one that runs no rule
DetectBatch ==
    /\ pc = "read"
    /\ input # << >>
    /\ records_per_detect # << >>
    /\ Len(records_per_detect) = MAX_DETECT_RECORDS \/ Head(input) = << >>
    /\ IF cfg.search_flag
         THEN UNCHANGED <<countdata, store, pc>>
         ELSE \E finished \in Perms(1..Len(records_per_detect)) :
                LET infos == create_rec_infos(records_per_detect, Len(input), finished)
                    d == DetectionStart(rule, countdata, store, infos)
                IN /\ countdata' = d.countdata
                   /\ store' = d.store
                   /\ pc' = IF d.panic THEN "panic" ELSE "read"
    /\ records_per_detect' = << >>
    /\ UNCHANGED <<loadVars, condVars, ERROR_LOG_STACK, rule, judged, last_call, cfg, input, output>>

\* the while loop ended with an empty batch: analysis_file returns
FileDone ==
    /\ pc = "read"
    /\ input # << >>
    /\ Head(input) = << >>
    /\ records_per_detect = << >>
    /\ input' = Tail(input)
    /\ UNCHANGED <<loadVars, condVars, ERROR_LOG_STACK, rule, countdata, pc, judged, last_call, cfg, records_per_detect, store,
                   output>>

\* a faulty loop exit that lets the flush run while files are left
LoopOverAnyTime(files) == TRUE

\* for evtx_file in evtx_files { .. } has run to its end
LoopOver(files) == files = << >>

\* analysis_files after the last file: detection.add_aggcondition_msges
AddAggconditionMsges ==
    /\ pc = "read"
    /\ LoopOver(input)
    /\ \E order \in IterOrders(countdata) :
          judged' = aggregation_condition_select(rule, countdata, order)
    /\ store' = IF judged'.panic THEN store ELSE add_aggcondition_msges(store, judged')
    /\ pc' = IF judged'.panic THEN "panic" ELSE "done"
    /\ UNCHANGED <<loadVars, condVars, ERROR_LOG_STACK, rule, countdata, last_call, cfg, input, records_per_detect, output>>

\* analysis_files after the flush: after_fact, unless the command writes no
\* alerts; emit_csv writes the Alert Store
AfterFact ==
    /\ pc = "done"
    /\ ~cfg.search_flag
    /\ output' = emit_csv(store)
    /\ pc' = "output"
    /\ UNCHANGED <<loadVars, condVars, ERROR_LOG_STACK, rule, countdata, judged, last_call, cfg, input, records_per_detect,
                   store>>

Next == ReadRecord \/ DetectBatch \/ FileDone \/ AddAggconditionMsges \/ AfterFact

Spec == Init /\ [][Next]_vars

\* ------------------------------------------------- scenario S6 of the scan
\* 00:30 .. 05:30 and 19:00 .. 22:00 of one day, in seconds
S6Times == << 1800, 5400, 9000, 12600, 16200, 19800, 68400, 72000, 75600, 79200 >>

\* count() >= 3 with timeframe: 2h
S6Rule ==
    [aggcondition |-> [cmp_op |-> "GE", cmp_num |-> 3,
                       exist_field |-> FALSE, by_field |-> FALSE],
     timeframe |-> TimeFrameInfo("h", 2)]

S6Config ==
    [search_flag |-> FALSE, eid_filter |-> FALSE, ids_empty |-> TRUE,
     quiet_errors_flag |-> FALSE, action |-> "CsvTimeline", start_timeline |-> None, end_timeline |-> None]

S6Record(t) == [Base EXCEPT !.timestamp = t, !.time = Some(t)]

\* the records of the indices in S, in the order of S6Times
RECURSIVE S6File(_, _)
S6File(S, i) ==
    IF i > Len(S6Times) THEN << >>
    ELSE (IF i \in S THEN << S6Record(S6Times[i]) >> ELSE << >>) \o S6File(S, i + 1)

\* the ten records spread over two files in every way
S6Inputs ==
    { << S6File(S, 1), S6File((1..Len(S6Times)) \ S, 1) >> : S \in SUBSET (1..Len(S6Times)) }

S6Init ==
    /\ rule = S6Rule
    /\ cfg = S6Config
    /\ input \in S6Inputs
    /\ records_per_detect = << >>
    /\ store = << >>
    /\ output = << >>
    /\ ERROR_LOG_STACK = << >>
    /\ countdata = EmptyMap
    /\ pc = "read"
    /\ judged = NotJudged
    /\ last_call = NoCall
    /\ NoCond
    /\ NoLoad

SpecS6 == S6Init /\ [][Next]_vars

\* ================================================ the condition compiler
\* A condition is the sequence of the words of its text (the spaces between
\* them are the Space tokens tokenize skips); a parenthesis is a word of its
\* own.  An occurrence of "all of PFX*" or "1 of PFX*" is one item, as it is
\* one match of OF_SELECTION.
Word(text) == [of |-> "", text |-> text]
OfSelection(quant, prefix) == [of |-> quant, text |-> prefix]

LeftParenWord  == << "(" >>
RightParenWord == << ")" >>
NotWord == << "n", "o", "t" >>
AndWord == << "a", "n", "d" >>
OrWord  == << "o", "r" >>

Ok(v) == [ok |-> TRUE, v |-> v]
Err(msg) == [ok |-> FALSE, msg |-> msg]

\* a starts_with that compares the lengths only
starts_with_length_only(x, prefix) == Len(prefix) <= Len(x)

\* str::starts_with
starts_with(x, prefix) ==
    /\ Len(prefix) <= Len(x)
    /\ SubSeq(x, 1, Len(prefix)) = prefix

\* Itertools::join: the words of the keys with sep between them
RECURSIVE join(_, _)
join(keys, sep) ==
    IF keys = << >> THEN << >>
    ELSE IF Len(keys) = 1 THEN << keys[1] >>
    ELSE << keys[1], sep >> \o join(Tail(keys), sep)

\* the group convert_condition puts in the place of one match of OF_SELECTION
replaced_condition(item, node_keys) ==
    LET sep == IF item.of = "all" THEN AndWord ELSE OrWord
        matched == SelectSeq(node_keys, LAMBDA x : starts_with(x, item.text))
    IN << LeftParenWord >> \o join(matched, sep) \o << RightParenWord >>

RECURSIVE convert_condition(_, _)
convert_condition(condition_str, node_keys) ==
    IF condition_str = << >> THEN << >>
    ELSE LET item == Head(condition_str)
             rest == convert_condition(Tail(condition_str), node_keys)
         IN IF item.of = "" THEN << item.text >> \o rest
            ELSE replaced_condition(item, node_keys) \o rest

\* RE_PIPE: the pipe and everything after it is cut off
RECURSIVE RemovePipe(_)
RemovePipe(words) ==
    IF words = << >> \/ Head(words) = << "|" >> THEN << >>
    ELSE << Head(words) >> \o RemovePipe(Tail(words))

\* ConditionToken: a token is its variant, the name of a SelectionReference
\* and the sub tokens of a container
Token(type) == [type |-> type, name |-> << >>, sub_tokens |-> << >>]
SelectionReference(name) == [type |-> "SelectionReference", name |-> name, sub_tokens |-> << >>]
Container(type, sub_tokens) == [type |-> type, name |-> << >>, sub_tokens |-> sub_tokens]

Containers ==
    {"ParenthesisContainer", "AndContainer", "OrContainer", "NotContainer", "OperandContainer"}

sub_tokens(token) == IF token.type \in Containers THEN token.sub_tokens ELSE << >>

sub_tokens_without_parenthesis(token) ==
    IF token.type = "ParenthesisContainer" THEN << >> ELSE sub_tokens(token)

replace_subtoken(token, new_sub_tokens) ==
    IF token.type \in Containers THEN Container(token.type, new_sub_tokens) ELSE token

\* the characters of \w that the names of the model are written with
WordChars == {"a", "b", "c", "d", "n", "o", "p", "q", "r", "t", "z", "1", "2", "_"}

\* a word one of the regular expressions of CONDITION_REGEXMAP matches whole
IsLexeme(word) ==
    \/ word \in {LeftParenWord, RightParenWord}
    \/ word # << >> /\ \A i \in 1..Len(word) : word[i] \in WordChars

to_enum(token) ==
    IF token = LeftParenWord THEN Token("LeftParenthesis")
    ELSE IF token = RightParenWord THEN Token("RightParenthesis")
    ELSE IF token = NotWord THEN Token("Not")
    ELSE IF token = AndWord THEN Token("And")
    ELSE IF token = OrWord THEN Token("Or")
    ELSE SelectionReference(token)

tokenize(words) ==
    IF \E i \in 1..Len(words) : ~IsLexeme(words[i])
    THEN Err("An unusable character was found.")
    ELSE Ok([i \in 1..Len(words) |-> to_enum(words[i])])

\* the ? operator over a loop: the first Err of the results, or the Ok of
\* all their values
Collect(results) ==
    IF \E i \in 1..Len(results) : ~results[i].ok
    THEN results[CHOOSE i \in 1..Len(results) :
                    ~results[i].ok /\ \A j \in 1..(i - 1) : results[j].ok]
    ELSE Ok([i \in 1..Len(results) |-> results[i].v])

\* the inner loop of parse_parenthesis: the tokens up to the parenthesis that
\* closes the one just read
RECURSIVE FindRightParenthesis(_, _, _, _)
FindRightParenthesis(tokens, left_cnt, right_cnt, sub) ==
    IF tokens = << >> THEN [closed |-> FALSE, sub_tokens |-> sub, rest |-> << >>]
    ELSE LET token == Head(tokens)
             l == IF token.type = "LeftParenthesis" THEN left_cnt + 1 ELSE left_cnt
             r == IF token.type = "RightParenthesis" THEN right_cnt + 1 ELSE right_cnt
         IN IF l = r THEN [closed |-> TRUE, sub_tokens |-> sub, rest |-> Tail(tokens)]
            ELSE FindRightParenthesis(Tail(tokens), l, r, Append(sub, token))

RECURSIVE ParenthesisLoop(_, _)
ParenthesisLoop(tokens, ret) ==
    IF tokens = << >>
    THEN IF \E i \in 1..Len(ret) : ret[i].type = "RightParenthesis"
         THEN Err("'(' was expected but not found.")
         ELSE Ok(ret)
    ELSE IF Head(tokens).type # "LeftParenthesis"
    THEN ParenthesisLoop(Tail(tokens), Append(ret, Head(tokens)))
    ELSE LET found == FindRightParenthesis(Tail(tokens), 1, 0, << >>) IN
         IF ~found.closed THEN Err("')' was expected but not found.")
         ELSE ParenthesisLoop(found.rest,
                              Append(ret, Container("ParenthesisContainer", found.sub_tokens)))

parse_parenthesis(tokens) == ParenthesisLoop(tokens, << >>)

is_logical(token) == token.type \in {"And", "Or"}

RECURSIVE OperandLoop(_, _, _)
OperandLoop(tokens, ret, grouped_operands) ==
    IF tokens = << >>
    THEN IF grouped_operands # << >>
         THEN Append(ret, Container("OperandContainer", grouped_operands))
         ELSE ret
    ELSE LET token == Head(tokens) IN
         IF is_logical(token)
         THEN IF grouped_operands = << >>
              THEN OperandLoop(Tail(tokens), Append(ret, token), << >>)
              ELSE OperandLoop(Tail(tokens),
                               ret \o << Container("OperandContainer", grouped_operands), token >>,
                               << >>)
         ELSE OperandLoop(Tail(tokens), ret, Append(grouped_operands, token))

to_operand_container(tokens) == OperandLoop(tokens, << >>, << >>)

\* an And that appends its operand as an Or does
AndAppends(operands, next) == Append(operands, next)

\* an And takes the operand before it out of the list and puts the AndContainer
\* of the two back; an Or appends its operand
AndOfLast(operands, next) ==
    Append(SubSeq(operands, 1, Len(operands) - 1),
           Container("AndContainer", << operands[Len(operands)], next >>))

RECURSIVE GroupOperands(_, _, _)
GroupOperands(operands, operant_ite, operator_list) ==
    IF operator_list = << >> THEN operands
    ELSE IF Head(operator_list).type = "Or"
    THEN GroupOperands(Append(operands, Head(operant_ite)), Tail(operant_ite),
                       Tail(operator_list))
    ELSE GroupOperands(AndOfLast(operands, Head(operant_ite)), Tail(operant_ite),
                       Tail(operator_list))

\* parse_and_or_operator once its tokens are known not to be empty
LogicalOperators(tokens_in) ==
    LET tokens == to_operand_container(tokens_in)
        operand_list == [k \in 1..((Len(tokens) + 1) \div 2) |-> tokens[2 * k - 1]]
        operator_list == [k \in 1..(Len(tokens) \div 2) |-> tokens[2 * k]]
    IN IF is_logical(tokens[1]) \/ is_logical(tokens[Len(tokens)])
       THEN Err("An illegal logical operator(and, or) was found.")
       ELSE IF \E i \in 0..(Len(tokens) - 1) : (i % 2 = 1) # is_logical(At(tokens, i))
       THEN Err("The use of a logical operator(and, or) was wrong.")
       ELSE Ok(Container("OrContainer",
                         GroupOperands(<< Head(operand_list) >>, Tail(operand_list),
                                       operator_list)))

\* a parse_and_or_operator that makes an OrContainer of no tokens
parse_and_or_operator_of_nothing(tokens_in) ==
    IF tokens_in = << >> THEN Ok(Container("OrContainer", << >>))
    ELSE LogicalOperators(tokens_in)

parse_and_or_operator(tokens_in) ==
    IF tokens_in = << >> THEN Err("Unknown error.")
    ELSE LogicalOperators(tokens_in)

MultipleNames ==
    "Unknown error. Maybe it is because there are multiple names of selection nodes."

RECURSIVE parse_operand_container(_)
parse_operand_container(parent_token) ==
    IF parent_token.type = "OperandContainer"
    THEN LET subs == parent_token.sub_tokens IN
         IF Len(subs) >= 3 THEN Err(MultipleNames)
         ELSE IF Len(subs) = 0 THEN Err("Unknown error.")
         ELSE IF Len(subs) = 1
         THEN IF subs[1].type = "Not" THEN Err("An illegal not was found.")
              ELSE Ok(subs[1])
         ELSE IF subs[1].type = "Not"
         THEN IF subs[2].type = "Not" THEN Err("Not is continuous.")
              ELSE Ok(Container("NotContainer", << subs[2] >>))
         ELSE Err(MultipleNames)
    ELSE LET subs == sub_tokens_without_parenthesis(parent_token) IN
         IF subs = << >> THEN Ok(parent_token)
         ELSE LET new == Collect([i \in 1..Len(subs) |-> parse_operand_container(subs[i])])
              IN IF new.ok THEN Ok(replace_subtoken(parent_token, new.v)) ELSE new

RECURSIVE parse(_)
RECURSIVE parse_rest_parenthesis(_)
parse_rest_parenthesis(token) ==
    IF token.type = "ParenthesisContainer" THEN parse(token.sub_tokens)
    ELSE LET subs == sub_tokens(token) IN
         IF subs = << >> THEN Ok(token)
         ELSE LET new == Collect([i \in 1..Len(subs) |-> parse_rest_parenthesis(subs[i])])
              IN IF new.ok THEN Ok(replace_subtoken(token, new.v)) ELSE new

parse(tokens) ==
    LET parenthesized == parse_parenthesis(tokens) IN
    IF ~parenthesized.ok THEN parenthesized
    ELSE LET grouped == parse_and_or_operator(parenthesized.v) IN
         IF ~grouped.ok THEN grouped
         ELSE LET token == parse_operand_container(grouped.v) IN
              IF ~token.ok THEN token
              ELSE parse_rest_parenthesis(token.v)

\* the nodes of a compiled condition: a RefSelectionNode stands for the
\* selection of its name
RefSelectionNode(name) == [type |-> "RefSelectionNode", name |-> name, child_nodes |-> << >>]
SelectionNodeOf(type, child_nodes) == [type |-> type, name |-> << >>, child_nodes |-> child_nodes]

\* name_2_node is the set of the selection names of the detection
RECURSIVE to_selectnode(_, _)
to_selectnode(token, name_2_node) ==
    LET children == Collect([i \in 1..Len(token.sub_tokens) |->
                                to_selectnode(token.sub_tokens[i], name_2_node)])
    IN IF token.type = "SelectionReference"
       THEN IF token.name \in name_2_node THEN Ok(RefSelectionNode(token.name))
            ELSE [ok |-> FALSE, msg |-> "{selection_name} is not defined.",
                  selection_name |-> token.name]
       ELSE IF token.type = "AndContainer"
       THEN IF children.ok THEN Ok(SelectionNodeOf("AndSelectionNode", children.v))
            ELSE children
       ELSE IF token.type = "OrContainer"
       THEN IF children.ok THEN Ok(SelectionNodeOf("OrSelectionNode", children.v))
            ELSE children
       ELSE IF token.type = "NotContainer"
       THEN IF Len(token.sub_tokens) > 1 THEN Err("Unknown error")
            ELSE IF children.ok THEN Ok(SelectionNodeOf("NotSelectionNode", children.v))
            ELSE children
       ELSE Err("Unknown error")

compile_condition_body(condition_str, name_2_node) ==
    LET tokens == tokenize(condition_str) IN
    IF ~tokens.ok THEN tokens
    ELSE LET parsed == parse(tokens.v) IN
         IF ~parsed.ok THEN parsed
         ELSE to_selectnode(parsed.v, name_2_node)

\* node_keys is name_2_node.keys() in the order the map yields them; the
\* result keeps the converted text next to the Result
compile_condition(condition_str, name_2_node, node_keys) ==
    LET converted == convert_condition(condition_str, node_keys)
        result == compile_condition_body(RemovePipe(converted), name_2_node)
    IN [called |-> TRUE, converted |-> converted, result |-> result,
        context |-> IF result.ok THEN "" ELSE "A condition parse error has occurred."]

\* SelectionNode::select of the four nodes; a record is the set of the names
\* of the selections it satisfies
RECURSIVE SelectionNode_select(_, _)
SelectionNode_select(node, record) ==
    IF node.type = "RefSelectionNode" THEN node.name \in record
    ELSE IF node.type = "AndSelectionNode"
    THEN \A i \in 1..Len(node.child_nodes) : SelectionNode_select(node.child_nodes[i], record)
    ELSE IF node.type = "OrSelectionNode"
    THEN \E i \in 1..Len(node.child_nodes) : SelectionNode_select(node.child_nodes[i], record)
    ELSE ~SelectionNode_select(node.child_nodes[1], record)

\* ------------------------------------------- conditions given to compile
MaxOperators == 2     \* logical operators (and, or) of a condition

SelectionNames == {<< "p", "1" >>, << "p", "2" >>, << "q" >>}

\* what stands between the logical operators: a selection name, all of p*
\* or 1 of p*, or not and one of these; or nothing, or not twice
Operands ==
    {<< Word(n) >> : n \in SelectionNames}
      \cup {<< OfSelection(quant, << "p" >>) >> : quant \in {"all", "1"}}
      \cup {<< Word(NotWord), Word(n) >> : n \in SelectionNames}
      \cup {<< Word(NotWord), OfSelection("1", << "p" >>) >>}
      \cup {<< >>, << Word(NotWord), Word(NotWord) >>,
            << Word(NotWord), Word(NotWord), Word(<< "q" >>) >>}

RECURSIVE Interleave(_, _)
Interleave(operands, operators) ==
    IF operators = << >> THEN Head(operands)
    ELSE Head(operands) \o << Word(Head(operators)) >>
           \o Interleave(Tail(operands), Tail(operators))

\* a DetectionNode::init that takes some selection as the condition when
\* there are several
no_condition_takes_any(name_2_node) ==
    IF name_2_node = {} THEN Err("There is no condition node under detection.")
    ELSE Ok(RefSelectionNode(CHOOSE n \in name_2_node : TRUE))

\* DetectionNode::init of a detection without condition: its sole selection
\* is the condition
no_condition(name_2_node) ==
    IF Cardinality(name_2_node) = 1
    THEN Ok(RefSelectionNode(CHOOSE n \in name_2_node : TRUE))
    ELSE Err("There is no condition node under detection.")

\* DetectionNode::init: the condition of the detection is compiled, or taken
\* from the selections when there is none
DetectionNode_init(d, node_keys) ==
    IF d.has_condition THEN compile_condition(d.condition, d.name_2_node, node_keys)
    ELSE [called |-> TRUE, converted |-> << >>, result |-> no_condition(d.name_2_node),
          context |-> ""]

CondInit ==
    /\ \/ \E k \in 0..MaxOperators :
             \E operands \in [1..(k + 1) -> Operands],
                operators \in [1..k -> {AndWord, OrWord}] :
                \E name_2_node \in {SelectionNames, {<< "q" >>}} :
                   detection = [has_condition |-> TRUE,
                                condition |-> Interleave(operands, operators),
                                name_2_node |-> name_2_node]
       \/ \E name_2_node \in SUBSET SelectionNames :
             detection = [has_condition |-> FALSE, condition |-> << >>,
                          name_2_node |-> name_2_node]
    /\ compiled = [called |-> FALSE]
    /\ pc = "compile"
    /\ rule = [timeframe |-> NoTimeframe]
    /\ countdata = EmptyMap
    /\ judged = NotJudged
    /\ last_call = NoCall
    /\ NoPipe
    /\ NoLoad

\* RuleNode::init: the detection is initialised
Compile ==
    /\ pc = "compile"
    /\ \E node_keys \in Perms(detection.name_2_node) :
          compiled' = DetectionNode_init(detection, node_keys)
    /\ pc' = IF compiled'.result.ok THEN "select" ELSE "rejected"
    /\ UNCHANGED <<loadVars, detection, rule, countdata, judged, last_call, pipeVars>>

\* the compiled condition is evaluated on a record
Select ==
    /\ pc = "select"
    /\ \E record \in SUBSET detection.name_2_node :
          last_call' = [made |-> TRUE, record |-> record,
                        ret |-> SelectionNode_select(compiled.result.v, record)]
    /\ pc' = "selected"
    /\ UNCHANGED <<loadVars, detection, compiled, rule, countdata, judged, pipeVars>>

CondNext == Compile \/ Select

SpecCond == CondInit /\ [][CondNext]_vars

\* ============================================================ rule loader
MaxDocs == 2          \* yaml documents read_dir found under the rule path

\* str::contains("exclude_rule") on the tags an exclusion list gives
contains_exclude_rule(v) == v \in {"exclude_rule", "rules/config/exclude_rules.txt"}

\* str::to_uppercase on the level names
to_uppercase(l) ==
    CASE l = "informational" -> "INFORMATIONAL"
      [] l = "low"           -> "LOW"
      [] l = "medium"        -> "MEDIUM"
      [] l = "high"          -> "HIGH"
      [] l = "critical"      -> "CRITICAL"
      [] OTHER               -> l

\* self.level_map.get(l).unwrap_or(&1)
level_map(l) ==
    CASE l = "INFORMATIONAL" -> 1
      [] l = "LOW"           -> 2
      [] l = "MEDIUM"        -> 3
      [] l = "HIGH"          -> 4
      [] l = "CRITICAL"      -> 5
      [] OTHER               -> 1

\* ParseYaml::new: exclude_status of the output option, empty without one
exclude_status(stored_static) ==
    IF stored_static.output_option.is_some
    THEN stored_static.output_option.v.exclude_status ELSE {}

enable_noisy_rules(stored_static) ==
    IF stored_static.output_option.is_some
    THEN stored_static.output_option.v.enable_noisy_rules ELSE FALSE

\* the entry of rule_load_cnt an id found in no_use_rule with tag v counts in
entry_key(v) == IF contains_exclude_rule(v) THEN "excluded" ELSE "noisy"

\* whether the exclusion list makes the filter drop an id tagged v
skipped_only_if_excluded(v, noisy_enabled) == entry_key(v) = "excluded"
dropped_by_tag(v, noisy_enabled) ==
    entry_key(v) = "excluded" \/ (entry_key(v) = "noisy" /\ ~noisy_enabled)

\* the closure of filter_map on one document: the ParseYaml it leaves and
\* whether the document is kept
filter_doc(self, doc, ids, stored_static, level) ==
    LET listed == doc.id.is_some /\ doc.id.v \in DOMAIN ids
        v      == ids[doc.id.v]
        cnt1   == IF listed /\ v # "00000000-0000-0000-0000-000000000000"
                  THEN EntryInc(self.rule_load_cnt, entry_key(v))
                  ELSE self.rule_load_cnt
        self1  == [self EXCEPT !.rule_load_cnt = cnt1]
    IN  IF listed /\ dropped_by_tag(v, enable_noisy_rules(stored_static))
        THEN [self |-> self1, kept |-> FALSE]
        ELSE IF doc.status.is_some /\ doc.status.v \in exclude_status(stored_static)
        THEN [self |-> [self1 EXCEPT !.rule_load_cnt = EntryInc(cnt1, "excluded")],
              kept |-> FALSE]
        ELSE LET self2 == [self1 EXCEPT
                              !.rulecounter = EntryInc(@, UnwrapOr(doc.ruletype, "Other")),
                              !.rule_status_cnt = EntryInc(@, UnwrapOr(doc.status, "undefined"))]
             IN  [self |-> self2,
                  kept |-> ~(level_map(to_uppercase(UnwrapOr(doc.level, "informational")))
                                < level_map(to_uppercase(level)))]

\* the identifiers the exclusion list can hold, each with its tag
RuleExcludes ==
    {EmptyMap, "a" :> "exclude_rule", "a" :> "noisy",
     ("a" :> "noisy") @@ ("b" :> "exclude_rule")}

LoadInit ==
    /\ rule = [timeframe |-> NoTimeframe]
    /\ countdata = EmptyMap
    /\ pc = "load"
    /\ judged = NotJudged
    /\ last_call = NoCall
    /\ NoCond
    /\ input = << >>
    /\ records_per_detect = << >>
    /\ store = << >>
    /\ output = << >>
    /\ ERROR_LOG_STACK = << >>
    /\ yaml = ParseYaml_new
    /\ \E n \in 0..MaxDocs :
          \E docs \in [1..n -> [id : {None, Some("a"), Some("b")},
                                status : {None, Some("deprecated")},
                                level : {None, Some("medium")},
                                ruletype : {None}]] :
             yaml_docs = [pc |-> "filter", rest |-> docs, all |-> docs, files |-> << >>]
    /\ exclude_ids \in RuleExcludes
    /\ cfg \in {[output_option |-> None, level |-> "informational"]} \cup
               [output_option : {Some([enable_noisy_rules |-> n, exclude_status |-> e]) :
                                    n \in BOOLEAN, e \in {{}, {"deprecated"}}},
                level : {"informational", "high"}]

\* one document through the filter of read_dir
FilterDoc ==
    /\ yaml_docs.pc = "filter"
    /\ yaml_docs.rest # << >>
    /\ LET r == filter_doc(yaml, Head(yaml_docs.rest), exclude_ids, cfg, cfg.level)
       IN  /\ yaml' = r.self
           /\ yaml_docs' = [yaml_docs EXCEPT
                               !.rest = Tail(@),
                               !.files = IF r.kept THEN Append(@, Head(yaml_docs.rest)) ELSE @]
    /\ UNCHANGED <<exclude_ids, condVars, pipeVars, rule, countdata, pc, judged, last_call>>

\* self.files.extend(files)
ExtendFiles ==
    /\ yaml_docs.pc = "filter"
    /\ yaml_docs.rest = << >>
    /\ yaml' = [yaml EXCEPT !.files = @ \o yaml_docs.files]
    /\ yaml_docs' = [yaml_docs EXCEPT !.pc = "read"]
    /\ UNCHANGED <<exclude_ids, condVars, pipeVars, rule, countdata, pc, judged, last_call>>

LoadNext == FilterDoc \/ ExtendFiles

SpecLoad == LoadInit /\ [][LoadNext]_vars

\* ============================================== properties of the loader
\* the identifiers of the documents read_dir has loaded
Loaded == {yaml.files[i].id : i \in 1..Len(yaml.files)}

Tagged(tag) == {id \in DOMAIN exclude_ids : exclude_ids[id] = tag}

NoisyEnabled == cfg.output_option.is_some /\ cfg.output_option.v.enable_noisy_rules

\* C26: a rule whose id the exclusion list tags exclude_rule is never
\* loaded, and a rule whose id it tags noisy is loaded only when noisy rules
\* are enabled.
C26_ExcludedAndNoisySkipped ==
    /\ \A id \in Tagged("exclude_rule") : Some(id) \notin Loaded
    /\ ~NoisyEnabled => \A id \in Tagged("noisy") : Some(id) \notin Loaded

\* read_dir has gone through a document of a rule tagged exclude_rule and one
\* of a rule tagged noisy, without the noisy rules enabled
C26_Witness ==
    /\ yaml_docs.pc = "read"
    /\ ~NoisyEnabled
    /\ \E i, j \in 1..Len(yaml_docs.all) :
           /\ yaml_docs.all[i].id.is_some /\ yaml_docs.all[i].id.v \in Tagged("exclude_rule")
           /\ yaml_docs.all[j].id.is_some /\ yaml_docs.all[j].id.v \in Tagged("noisy")

\* ================================================= properties of the sweep
Agg == rule.aggcondition
HasFrame == get_sec_timeframe(rule.timeframe).is_some
FrameSec == get_sec_timeframe(rule.timeframe).sec
Flushed == pc = "done"

\* the observations of slot "_" and their number K
SlotObs == IF Underbar \in DOMAIN countdata THEN countdata[Underbar] ELSE << >>
K == Len(SlotObs)
Min(a, b) == IF a < b THEN a ELSE b

\* the run of judge_timeframe over the slot that was visited i-th
Run(i) == judged.runs[i]
Runs == 1..Len(judged.runs)

\* the distinct field values at positions L..R-1 of a sorted slot
DistinctIn(time_data, L, R) ==
    {At(time_data, i).field_record_value : i \in L..(R - 1)}

PlainGE == Agg.cmp_op = "GE" /\ ~Agg.exist_field /\ Agg.cmp_num >= 1 /\ ~HasFrame

\* C1 (as claimed): count() >= N without timeframe emits exactly floor(K/N)
\* windows for a slot of K observations.
C1_FloorWindows ==
    (Flushed /\ PlainGE) => Len(judged.ret) = K \div Agg.cmp_num

\* C1 (amended): count() >= N without timeframe emits at most
\* min(1, floor(K/N)) results for a slot of K observations, so never more
\* than one alert per N consumed observations.
C1_AtMostOnePerSlot ==
    (Flushed /\ PlainGE) => Len(judged.ret) <= Min(1, K \div Agg.cmp_num)

\* a slot with K >= 2N observations, for which one result was emitted
C1_Witness ==
    Flushed /\ PlainGE /\ K >= 2 * Agg.cmp_num /\ Len(judged.ret) = 1

\* C2: with a timeframe of T seconds, for every operator, every emitted
\* window spans at most T seconds from its anchor observation to the last
\* observation included in it (sentinels are no observations).
C2_SpanWithinTimeframe ==
    (Flushed /\ HasFrame) =>
        \A i \in Runs : \A j \in 1..Len(Run(i).ret) :
            LET w    == Run(i).ret[j]
                last == Min(w.R, K) - 1
            IN last >= w.L =>
                 At(Run(i).time_data, last).record_time
                    - At(Run(i).time_data, w.L).record_time <= FrameSec

\* C3: within one slot the windows emitted by one flush are pairwise
\* disjoint and no observation is counted in more than one emitted result:
\* a result emitted for a later window counts no field value that only an
\* observation of an earlier emitted window carries.
C3_NoObservationCountedTwice ==
    (Flushed /\ HasFrame) =>
        \A i \in Runs : \A j, k \in 1..Len(Run(i).ret) :
            j < k =>
              LET a == Run(i).ret[j]
                  b == Run(i).ret[k]
              IN /\ a.R <= b.L
                 /\ Agg.exist_field =>
                      \A x \in a.L..(a.R - 1) :
                         At(Run(i).time_data, x).field_record_value \in b.loaded_keys
                           => At(Run(i).time_data, x).field_record_value
                                 \in DistinctIn(Run(i).time_data, b.L, b.R)

\* C4: for count(F) with a timeframe, the number compared against N for a
\* candidate window [L, R) is the number of distinct values of F among the
\* observations at positions L..R-1 of the time-sorted slot.
C4_DistinctOfWindow ==
    (Flushed /\ HasFrame /\ Agg.exist_field) =>
        \A i \in Runs : \A j \in 1..Len(Run(i).cmps) :
            LET c == Run(i).cmps[j] IN
            c.cnt = Cardinality(DistinctIn(Run(i).time_data, c.L, c.R))

\* the number a timeframe-less rule has to compare: the distinct field values
\* of the slot if a count field is given, the number of observations otherwise
WholeSlotCount ==
    IF Agg.exist_field
      THEN Cardinality({SlotObs[i].field_record_value : i \in 1..K})
      ELSE K

\* C5: without timeframe, flush makes one comparison per slot over all its
\* observations and emits exactly one result if that number satisfies OP N,
\* none otherwise.
C5_SingleComparison ==
    (Flushed /\ ~HasFrame) =>
        Len(judged.ret) = IF select_aggcon(WholeSlotCount, Agg) THEN 1 ELSE 0

\* C15: with a timeframe of 0 two observations of a slot are counted in the
\* same window only if their timestamps are equal
C15_ZeroTimeframeSameTimestamp ==
    (Flushed /\ HasFrame /\ FrameSec = 0) =>
        \A i \in Runs : \A j \in 1..Len(Run(i).ret) :
            LET w == Run(i).ret[j] IN
            \A a, b \in w.L..(Min(w.R, K) - 1) :
                At(Run(i).time_data, a).record_time = At(Run(i).time_data, b).record_time

\* C16: an observation of a record without the count field carries the empty
\* string, which counts as one distinct value: for count(X) with a timeframe
\* the number compared for a window exceeds the number of distinct non-empty
\* values of the observations of the window by at most one
C16_EmptyValueAddsAtMostOne ==
    (Flushed /\ HasFrame /\ Agg.exist_field) =>
        \A i \in Runs : \A j \in 1..Len(Run(i).cmps) :
            LET c == Run(i).cmps[j] IN
            c.cnt <= Cardinality(DistinctIn(Run(i).time_data, c.L, Min(c.R, K))
                                    \ {EmptyStr}) + 1

\* C17: the sweep over a slot of n observations with threshold N >= 1 ends
\* after a number of iterations linear in n + N: each iteration moves one of
\* the two cursors forward over the n + N entries, so there are no more than
\* 2 * (n + N) of them
C17_LinearSweep ==
    (Flushed /\ Agg.cmp_num >= 1) =>
        \A i \in Runs : Run(i).steps <= 2 * (K + Agg.cmp_num)

\* the flush has run to its end or has panicked
FlushEnded == pc \in {"done", "panic"}

\* C13: with N = 0 and >= the comparison always matches: the flush of a
\* non-empty slot runs to its end and every observation of the slot lies in a
\* window for which a result is emitted
C13_ZeroGEAlwaysEmits ==
    (FlushEnded /\ Agg.cmp_op = "GE" /\ Agg.cmp_num = 0 /\ K >= 1) =>
        /\ pc = "done"
        /\ \A i \in 0..(K - 1) :
              \E n \in 1..Len(judged.ret) : judged.ret[n].L <= i /\ i < judged.ret[n].R

\* C14: with N = 0 and > the flush emits a result for a slot that holds at
\* least one observation
C14_ZeroGTEmitsOnNonEmpty ==
    (FlushEnded /\ Agg.cmp_op = "GT" /\ Agg.cmp_num = 0 /\ K >= 1) =>
        pc = "done" /\ Len(judged.ret) >= 1

\* C27: the flush of a non-empty slot never reads outside the slot's
\* observation sequence: it does not panic on an index out of bounds, for any
\* threshold N >= 0, any operator and any timeframe setting
C27_FlushNeverOutOfBounds ==
    (FlushEnded /\ K >= 1 /\ Agg.cmp_num >= 0) => ~judged.panic

\* the slot holds n observations whose timestamps all lie within sec seconds
\* of the earliest of them
HoldsWithin(n, sec) ==
    \E S \in SUBSET (1..K) :
        /\ Cardinality(S) = n
        /\ \A i, j \in S : SlotObs[j].record_time - SlotObs[i].record_time <= sec

\* C28: count() >= N (N >= 1) with a timeframe of T seconds is complete: if
\* the slot holds N observations whose timestamps all lie within T seconds of
\* the earliest of them, the flush emits at least one result for the slot
C28_CompleteGE ==
    (Flushed /\ HasFrame /\ Agg.cmp_op = "GE" /\ ~Agg.exist_field /\ Agg.cmp_num >= 1
        /\ HoldsWithin(Agg.cmp_num, FrameSec)) => Len(judged.ret) >= 1

\* a slot with more than N >= 2 observations, N of them within the timeframe
\* and two of them further apart than the timeframe, for which a result was
\* emitted
C28_Witness ==
    /\ Flushed /\ HasFrame /\ Agg.cmp_op = "GE" /\ ~Agg.exist_field
    /\ Agg.cmp_num >= 2 /\ K > Agg.cmp_num
    /\ HoldsWithin(Agg.cmp_num, FrameSec)
    /\ \E i, j \in 1..K : SlotObs[j].record_time - SlotObs[i].record_time > FrameSec
    /\ Len(judged.ret) >= 1

\* the timestamps of the observations of the slot of key
TimesOf(key) == {countdata[key][i].record_time : i \in 1..Len(countdata[key])}

\* C30: every result the flush emits is anchored at the timestamp of an
\* observation of its slot, never at the sentinel timestamp appended for the
\* sweep
C30_AnchoredAtObservation ==
    Flushed =>
        \A n \in 1..Len(judged.ret) :
            /\ judged.ret[n].start_timedate # StopTime
            /\ judged.ret[n].key \in DOMAIN countdata
            /\ judged.ret[n].start_timedate \in TimesOf(judged.ret[n].key)

\* a flush with a timeframe that emitted a result anchored at another
\* observation than the first of its slot
C30_Witness ==
    /\ Flushed /\ HasFrame /\ Agg.cmp_num >= 1
    /\ \E n \in 1..Len(judged.ret) :
          judged.ret[n].L >= 1 /\ judged.ret[n].start_timedate > SlotObs[1].record_time

\* ===================================== properties of select, count and flush
\* a step in which rule.select was called
SelectStep == last_call'.made /\ last_call' # last_call
Rec == last_call'.record

Slot(cd, key) == IF key \in DOMAIN cd THEN cd[key] ELSE << >>

\* the text of a JSON value itself: the characters of a string, the digits
\* of a number
TextOf(value) == IF value.kind = "Number" THEN Digits(value.n) ELSE value.chars

\* the field value an observation of record rec carries for rule r
FieldValueOf(r, rec) ==
    IF r.aggcondition.exist_field /\ rec.field.kind # "None"
      THEN StripValue(rec.field) ELSE EmptyStr

\* C7 (as claimed): a matching record without event time is skipped by an
\* aggregating rule: no slot changes.
C7_MissingTimeSkipped ==
    [][(SelectStep /\ Rec.hit /\ ~Rec.time.is_some) => countdata' = countdata]_vars

\* C7 (amended): a matching record without event time is recorded like any
\* other, as an observation at the default time 1977-01-01 00:00:00.
C7_MissingTimeRecordedAtDefault ==
    [][(SelectStep /\ Rec.hit /\ ~Rec.time.is_some /\ pc' # "panic") =>
          LET key == create_count_key(rule, Rec) IN
          countdata'[key] =
              Append(Slot(countdata, key),
                     [field_record_value |-> FieldValueOf(rule, Rec),
                      record_time |-> DefaultTime])]_vars

\* a record without event time was selected and the flush emitted a result
\* anchored at the default time
C7_Witness ==
    /\ pc = "done" /\ last_call.made
    /\ last_call.record.hit /\ ~last_call.record.time.is_some
    /\ \E i \in 1..Len(judged.ret) : judged.ret[i].start_timedate = DefaultTime

\* the key the claim names: the by-field value of the record if the rule has
\* a by-field and the record carries it, "_" otherwise
ClaimedKey(r, rec) ==
    IF r.aggcondition.by_field /\ rec.by.kind # "None" THEN TextOf(rec.by) ELSE Underbar

\* C9: when a record (one that carries an EventID, as every event of a log
\* does) satisfies the condition before the pipe, select returns true and
\* appends exactly one observation to the slot of the record's by-field value
\* (of "_" without one); no other slot changes.
C9_OneObservationUnderByKey ==
    [][(SelectStep /\ Rec.hit /\ Rec.eid # "none") =>
          LET key == ClaimedKey(rule, Rec) IN
          /\ last_call'.ret = TRUE
          /\ DOMAIN countdata' = DOMAIN countdata \cup {key}
          /\ Len(countdata'[key]) = Len(Slot(countdata, key)) + 1
          /\ SubSeq(countdata'[key], 1, Len(countdata'[key]) - 1) = Slot(countdata, key)
          /\ \A k \in DOMAIN countdata \ {key} : countdata'[k] = countdata[k]]_vars

\* byte order of the characters the model's keys are made of
Ascii(c) ==
    CASE c = Quote -> 34 [] c = "7" -> 55 [] c = "S" -> 83 [] c = Backslash -> 92
      [] c = "_" -> 95 [] c = "a" -> 97 [] c = "b" -> 98 [] OTHER -> 0

RECURSIVE StrLess(_, _)
StrLess(a, b) ==
    IF b = << >> THEN FALSE
    ELSE IF a = << >> THEN TRUE
    ELSE IF Head(a) # Head(b) THEN Ascii(Head(a)) < Ascii(Head(b))
    ELSE StrLess(Tail(a), Tail(b))

\* C10: flush visits the slots of a rule in sorted key order, so the sequence
\* of its results does not depend on the order in which the map yields them.
C10_SortedKeyOrder ==
    Flushed =>
        /\ \A i \in 1..(Len(judged.runs) - 1) :
              StrLess(judged.runs[i].key, judged.runs[i + 1].key)
        /\ \A order \in IterOrders(countdata) :
              aggregation_condition_select(rule, countdata, order).ret = judged.ret

\* ================================================== properties of the scan
AggregateRows == SelectSeq(store, LAMBDA row : row.is_aggregate)

RECURSIVE Timestamps(_)
Timestamps(rows) ==
    IF rows = << >> THEN << >> ELSE << Head(rows).timestamp >> \o Timestamps(Tail(rows))

\* C6: while batches are being processed the Alert Store holds no aggregate
\* alert; once the scan is over every file has been read to its end, no batch
\* is pending, and the aggregate alerts of the Alert Store are the results of
\* the flush
C6_AggregateAlertsOnlyAtFlush ==
    /\ pc = "read" => AggregateRows = << >>
    /\ pc = "done" => /\ input = << >>
                      /\ records_per_detect = << >>
                      /\ AggregateRows = AggRows(judged.ret)

\* a scan of more than one batch that ended with an aggregate alert next to
\* an alert of the rule without aggregation condition
C6_Witness ==
    /\ pc = "done"
    /\ SlotLen(countdata, Underbar) > MAX_DETECT_RECORDS
    /\ AggregateRows # << >>
    /\ Len(store) > Len(AggregateRows)

\* C8 as stated: scenario S6 ends with exactly two aggregate alerts, anchored
\* at 01:30 and 20:00
C8_TwoAlerts ==
    pc = "done" => Timestamps(AggregateRows) = << 5400, 72000 >>

\* C8: scenario S6 ends with exactly three aggregate alerts, anchored at
\* 00:30, 03:30 and 19:00; none is anchored at 05:30
C8_ThreeAlerts ==
    pc = "done" => /\ Timestamps(AggregateRows) = << 1800, 12600, 68400 >>
                   /\ \A i \in 1..Len(store) : store[i].timestamp # 19800

C8_Witness ==
    /\ pc = "done"
    /\ SlotLen(countdata, Underbar) = Len(S6Times)
    /\ Len(AggregateRows) = 3

\* ------------------------------------------------------- the written output
PlainRows == SelectSeq(store, LAMBDA row : ~row.is_aggregate)

Occurrences(rows, row) == Cardinality({i \in 1..Len(rows) : rows[i] = row})

\* the same rows, each as many times
SameRows(a, b) ==
    /\ Len(a) = Len(b)
    /\ \A i \in 1..Len(a) : Occurrences(a, a[i]) = Occurrences(b, a[i])

\* the Alert Store another run over the same input ends with, when its flush
\* meets the slots in the given order
StoreOfRun(order) ==
    add_aggcondition_msges(PlainRows,
                           aggregation_condition_select(rule, countdata, order))

\* C11: a second run over the same input with the same rule ends with the
\* same rows in the Alert Store and writes them in the same sequence
C11_SameOutputOnRerun ==
    pc = "output" =>
        \A order \in IterOrders(countdata) :
            /\ SameRows(StoreOfRun(order), store)
            /\ emit_csv(StoreOfRun(order)) = output

\* C12: the rows are written in non-decreasing order of their timestamps, and
\* every row of the Alert Store is written once, whatever the order in which
\* the rows were inserted
C12_OutputSortedByTimestamp ==
    pc = "output" =>
        /\ \A i, j \in 1..Len(output) :
              i < j => output[i].timestamp <= output[j].timestamp
        /\ SameRows(output, store)

\* an aggregate alert was inserted at the flush behind an alert of a later
\* timestamp, and the output was written
C12_Witness ==
    /\ pc = "output"
    /\ \E i, j \in 1..Len(store) :
          i < j /\ store[j].is_aggregate /\ store[i].timestamp > store[j].timestamp

\* ================================= properties of the compiled condition
Compiled == compiled.called /\ compiled.result.ok
Rejected == compiled.called /\ ~compiled.result.ok
Selected == last_call.made
Holds(name) == name \in last_call.record
Defined(name) == name \in detection.name_2_node

\* the text  a or b and not c
OrAndNot(a, b, c) ==
    << Word(a), Word(OrWord), Word(b), Word(AndWord), Word(NotWord), Word(c) >>

\* the text  not a and b or c
NotAndOr(a, b, c) ==
    << Word(NotWord), Word(a), Word(AndWord), Word(b), Word(OrWord), Word(c) >>

\* C18: and binds tighter than or, and not tighter than both: for the
\* selections a, b, c of a detection the condition "a or b and not c" is
\* compiled, and on every record it evaluates to a OR (b AND (NOT c));
\* likewise "not a and b or c" evaluates to ((NOT a) AND b) OR c.
C18_AndBindsTighterThanOr ==
    \A a, b, c \in SelectionNames :
        (Len(detection.condition) = 6 /\ Defined(a) /\ Defined(b) /\ Defined(c))
          => /\ detection.condition = OrAndNot(a, b, c)
                  => /\ compiled.called => compiled.result.ok
                     /\ Selected => (last_call.ret <=> (Holds(a) \/ (Holds(b) /\ ~Holds(c))))
             /\ detection.condition = NotAndOr(a, b, c)
                  => /\ compiled.called => compiled.result.ok
                     /\ Selected => (last_call.ret <=> ((~Holds(a) /\ Holds(b)) \/ Holds(c)))

\* a record on which (a or b) and not c is false and a or (b and not c) true
C18_Witness ==
    /\ detection.condition = OrAndNot(<< "q" >>, << "p", "1" >>, << "p", "2" >>)
    /\ Selected
    /\ last_call.record = {<< "q" >>, << "p", "2" >>}
    /\ last_call.ret

\* the selections of the detection whose names start with prefix
StartingWith(prefix) ==
    {n \in detection.name_2_node :
        Len(prefix) <= Len(n) /\ \A i \in 1..Len(prefix) : n[i] = prefix[i]}
AllOf(prefix) == \A n \in StartingWith(prefix) : Holds(n)
OneOf(prefix) == \E n \in StartingWith(prefix) : Holds(n)
OfValue(item) == IF item.of = "all" THEN AllOf(item.text) ELSE OneOf(item.text)
IsOf(item) == item.of # ""

\* C19: when some selection name starts with p, "all of p*" evaluates on
\* every record to the AND of the selections whose names start with p and
\* "1 of p*" to their OR, alone, under a not, and next to another selection.
C19_OfIsAndOrOfPrefixed ==
    LET cond == detection.condition IN
    (Selected /\ \A i \in 1..Len(cond) : IsOf(cond[i]) => StartingWith(cond[i].text) # {})
      => /\ (Len(cond) = 1 /\ IsOf(cond[1])) => (last_call.ret <=> OfValue(cond[1]))
         /\ (Len(cond) = 2 /\ cond[1] = Word(NotWord) /\ IsOf(cond[2]))
              => (last_call.ret <=> ~OfValue(cond[2]))
         /\ (Len(cond) = 3 /\ cond[1].text \in SelectionNames /\ ~IsOf(cond[1])
               /\ IsOf(cond[3]))
              => (last_call.ret <=> IF cond[2] = Word(AndWord)
                                    THEN Holds(cond[1].text) /\ OfValue(cond[3])
                                    ELSE Holds(cond[1].text) \/ OfValue(cond[3]))

\* "all of p*" is false on a record that satisfies p1 and q but not p2
C19_Witness ==
    /\ detection.condition = << OfSelection("all", << "p" >>) >>
    /\ detection.name_2_node = SelectionNames
    /\ Selected
    /\ last_call.record = {<< "p", "1" >>, << "q" >>}
    /\ ~last_call.ret

\* an empty group "()" in the converted text
EmptyGroup(words) ==
    \E i \in 1..(Len(words) - 1) : words[i] = LeftParenWord /\ words[i + 1] = RightParenWord

NoneStartsWith ==
    \E i \in 1..Len(detection.condition) :
        IsOf(detection.condition[i]) /\ StartingWith(detection.condition[i].text) = {}

\* C20: a condition with "all of PFX*" or "1 of PFX*" where no selection
\* name starts with PFX is converted to a text with an empty group, and the
\* compilation returns an error: there is no tree to evaluate.
C20_EmptyGroupRejected ==
    (compiled.called /\ NoneStartsWith)
      => /\ EmptyGroup(compiled.converted)
         /\ ~compiled.result.ok
         /\ pc = "rejected"
         /\ ~Selected

C20_Witness ==
    /\ detection.condition = << Word(<< "q" >>), Word(OrWord), OfSelection("1", << "p" >>) >>
    /\ detection.name_2_node = {<< "q" >>}
    /\ compiled.called
    /\ compiled.converted = << << "q" >>, OrWord, LeftParenWord, RightParenWord >>
    /\ compiled.result = Err("Unknown error.")
    /\ pc = "rejected"

IsLogicalWord(item) == item \in {Word(AndWord), Word(OrWord)}
LeadingOrTrailing ==
    LET cond == detection.condition IN
    cond # << >> /\ (IsLogicalWord(cond[1]) \/ IsLogicalWord(cond[Len(cond)]))
BackToBack ==
    LET cond == detection.condition IN
    \E i \in 1..(Len(cond) - 1) : IsLogicalWord(cond[i]) /\ IsLogicalWord(cond[i + 1])
NotTwice ==
    LET cond == detection.condition IN
    \E i \in 1..(Len(cond) - 1) : cond[i] = Word(NotWord) /\ cond[i + 1] = Word(NotWord)
RejectedWith(msg) == pc = "rejected" /\ compiled.result = Err(msg)

\* C21: a compiled condition with a leading or trailing and/or is rejected
\* with "An illegal logical operator(and, or) was found."; one with two
\* and/or in a row (and none leading or trailing) with "The use of a logical
\* operator(and, or) was wrong."; one with two not in a row (and its logical
\* operators in place) with "Not is continuous.".
C21_PreciseMessages ==
    compiled.called =>
      /\ LeadingOrTrailing
            => RejectedWith("An illegal logical operator(and, or) was found.")
      /\ (BackToBack /\ ~LeadingOrTrailing)
            => RejectedWith("The use of a logical operator(and, or) was wrong.")
      /\ (NotTwice /\ ~BackToBack /\ ~LeadingOrTrailing)
            => RejectedWith("Not is continuous.")

NoCondition == ~detection.has_condition
Sole == CHOOSE n \in detection.name_2_node : TRUE

\* C22: a detection without condition is accepted if and only if it has
\* exactly one selection; that selection is then the root of its condition
\* and decides every record; with several selections it is rejected with
\* "There is no condition node under detection.".
C22_NoConditionOneSelection ==
    (compiled.called /\ NoCondition)
      => /\ compiled.result.ok <=> Cardinality(detection.name_2_node) = 1
         /\ compiled.result.ok => compiled.result.v = RefSelectionNode(Sole)
         /\ Selected => (last_call.ret <=> Holds(Sole))
         /\ Cardinality(detection.name_2_node) > 1
               => RejectedWith("There is no condition node under detection.")

\* a detection with the one selection q decides a record by q
C22_Witness ==
    /\ NoCondition
    /\ detection.name_2_node = {<< "q" >>}
    /\ Selected
    /\ last_call.record = {<< "q" >>}
    /\ last_call.ret

\* =========================================== properties of the batching
\* a step of analysis_file that takes the next item from the decoder
Reads == pc = "read" /\ input # << >> /\ Head(input) # << >> /\ input' # input
NextItem == Head(Head(input))
PushesNext == records_per_detect' = Append(records_per_detect, NextItem)

ChannelMissing == NextItem.channel # "ok"
EventIdFilteredOut == cfg.eid_filter /\ ~cfg.ids_empty /\ NextItem.eid = "unlisted"
OutsideTimeRange ==
    \/ cfg.start_timeline.is_some /\ NextItem.timestamp < cfg.start_timeline.v
    \/ cfg.end_timeline.is_some /\ NextItem.timestamp > cfg.end_timeline.v

\* C23: outside search mode a record is not put into the batch for the
\* rules when its channel is missing, when the event id filter is on and its
\* event id is not in the set, or when its timestamp is before the
\* configured start or after the configured end; in search mode every
\* record the decoder parsed is put into the batch.
C23_PreFilter ==
    [][Reads =>
         /\ (~cfg.search_flag
               /\ (ChannelMissing \/ EventIdFilteredOut \/ OutsideTimeRange))
              => ~PushesNext
         /\ (cfg.search_flag /\ NextItem.kind = "rec") => PushesNext]_vars

\* a step of analysis_file that hands a batch to the rules
Detects ==
    /\ pc = "read" /\ ~cfg.search_flag
    /\ records_per_detect # << >> /\ records_per_detect' = << >>
InDecoderOrder ==
    [i \in 1..Len(records_per_detect) |-> create_rec_info(records_per_detect[i], Len(input))]

\* C24: whatever the order in which the spawned tasks complete, the rules
\* are given the records of a batch in the order in which the decoder
\* produced them: what detection.start leaves is what it leaves for the
\* enriched records in decoder order.
C24_BatchInDecoderOrder ==
    [][Detects =>
         LET d == DetectionStart(rule, countdata, store, InDecoderOrder)
         IN countdata' = d.countdata /\ store' = d.store]_vars

\* a batch of two records of one file, the later one first, has been
\* counted in that order
C24_Witness ==
    /\ pc = "read" /\ input = << >> /\ records_per_detect = << >>
    /\ Underbar \in DOMAIN countdata
    /\ Len(countdata[Underbar]) = 2
    /\ countdata[Underbar][1].record_time = 2
    /\ countdata[Underbar][2].record_time = 1

FailedToParse == NextItem.kind = "err"
Logged == ERROR_LOG_STACK' = Append(ERROR_LOG_STACK, "[ERROR] Failed to parse event file.")
Skipped == records_per_detect' = records_per_detect
Continues ==
    /\ pc' = "read"
    /\ input' = << Tail(Head(input)) >> \o Tail(input)
    /\ countdata' = countdata /\ store' = store

\* C25 as stated: a record the decoder fails to parse is logged and
\* skipped, and the loop goes on with the next record of the file.
C25_LoggedAndSkipped ==
    [][(Reads /\ FailedToParse) => (Logged /\ Skipped /\ Continues)]_vars

\* C25: a record the decoder fails to parse is skipped and the loop goes on
\* with the next record, with nothing of the run undone; its message is
\* pushed to the error log unless quiet_errors_flag is set, and then
\* nothing is pushed.
C25_SkippedAndLoggedUnlessQuiet ==
    [][(Reads /\ FailedToParse)
         => /\ Skipped /\ Continues
            /\ IF cfg.quiet_errors_flag THEN ERROR_LOG_STACK' = ERROR_LOG_STACK
               ELSE Logged]_vars

\* a failure was logged in a file from which a record was counted, and the
\* scan has reached its end
C25_Witness ==
    /\ pc # "panic" /\ input = << >> /\ records_per_detect = << >>
    /\ ERROR_LOG_STACK # << >>
    /\ countdata # EmptyMap

\* the records among items that the decoder yields successfully and that
\* pass the pre-filter
RECURSIVE Passing(_)
Passing(items) ==
    IF items = << >> THEN 0
    ELSE (IF Pushed(cfg, Head(items)) THEN 1 ELSE 0) + Passing(Tail(items))

\* those of them that the decoders of the files have not yielded yet
RECURSIVE Remaining(_)
Remaining(files) ==
    IF files = << >> THEN 0 ELSE Passing(Head(files)) + Remaining(Tail(files))

\* the records delivered to the detection step: every record of the scan
\* satisfies the aggregating rule, so each delivery leaves one observation
RECURSIVE Delivered(_, _)
Delivered(cd, keys) ==
    IF keys = {} THEN 0
    ELSE LET k == CHOOSE k \in keys : TRUE
         IN Len(cd[k]) + Delivered(cd, keys \ {k})

\* C29: every record the decoder yields successfully and that passes the
\* pre-filter is delivered to the detection step in exactly one batch: at
\* every step the records delivered, those pending in the batch and those
\* still to be yielded add up to the same number, a batch never exceeds
\* MAX_DETECT_RECORDS, and the loop over a file is left only when its
\* decoder is exhausted and no record is pending.
C29_DeliveredInExactlyOneBatch ==
    [][(pc = "read" /\ ~cfg.search_flag /\ pc' # "panic") =>
         /\ Delivered(countdata', DOMAIN countdata') + Len(records_per_detect')
                + Remaining(input')
              = Delivered(countdata, DOMAIN countdata) + Len(records_per_detect)
                + Remaining(input)
         /\ Len(records_per_detect') <= MAX_DETECT_RECORDS
         /\ Len(input') < Len(input) =>
               Head(input) = << >> /\ records_per_detect = << >>
         /\ pc' = "done" => input = << >> /\ records_per_detect = << >>]_vars

\* a scan that ran the rules has ended after it delivered more records than
\* one batch holds
C29_Witness ==
    /\ pc = "done" /\ ~cfg.search_flag
    /\ Delivered(countdata, DOMAIN countdata) > MAX_DETECT_RECORDS

====
